---- MODULE Spec2Model ----
(***************************************************************************)
(* FB360 server (server.py): the image normaliser fix_aspect_ratio, the    *)
(* gallery/thumbnail directories and the HTTP handlers that change them.   *)
(*                                                                         *)
(* File names are sequences of one-character strings, so that the string   *)
(* operations of the handlers (endswith, rsplit, Path.stem, f-strings) are *)
(* computed character by character.  An image is known by its pixel        *)
(* dimensions, its decodability and an identity tag standing for the       *)
(* remaining bytes.                                                        *)
(***************************************************************************)
EXTENDS Integers, Sequences, FiniteSets, TLC

----------------------------------------------------------------------------
(* Program constants *)

DEFAULT_WIDTH == 6000
DEFAULT_HEIGHT == 3000

----------------------------------------------------------------------------
(* Bounds of the model *)

\* image dimensions 1..MaxSmallDim are all tried
MaxSmallDim == 12
\* dimensions within DimBand of DEFAULT_WIDTH and of DEFAULT_HEIGHT are all tried
DimBand == 30
\* the handlers that create a file are disabled once the gallery or the
\* thumbnails directory holds this many files
MaxFiles == 2
\* in runs of saves alone, up to this many
MaxSaved == 3
\* the number of requests handled at the same time, one thread each
MaxThreads == 2

----------------------------------------------------------------------------
(* Python string operations on names *)

Range(s) == {s[i] : i \in 1..Len(s)}

\* str.endswith
EndsWith(s, suf) ==
    /\ Len(s) >= Len(suf)
    /\ SubSeq(s, Len(s) - Len(suf) + 1, Len(s)) = suf

\* str.startswith
StartsWith(s, pre) ==
    /\ Len(s) >= Len(pre)
    /\ SubSeq(s, 1, Len(pre)) = pre

\* str.rfind, 1-based, 0 when the character does not occur
RFind(s, c) ==
    IF c \in Range(s)
    THEN CHOOSE i \in 1..Len(s) : s[i] = c /\ \A j \in (i+1)..Len(s) : s[j] # c
    ELSE 0

\* str.find, 1-based, 0 when the character does not occur
Find(s, c) ==
    IF c \in Range(s)
    THEN CHOOSE i \in 1..Len(s) : s[i] = c /\ \A j \in 1..(i-1) : s[j] # c
    ELSE 0

\* s.rsplit('.', 1)[0]
RSplitDot(s) ==
    IF RFind(s, ".") = 0 THEN s ELSE SubSeq(s, 1, RFind(s, ".") - 1)

\* s.split(',', 1)[1], used when ',' is in s
SplitComma(s) == SubSeq(s, Find(s, ",") + 1, Len(s))

Digit(d) ==
    CASE d = 0 -> "0" [] d = 1 -> "1" [] d = 2 -> "2" [] d = 3 -> "3"
      [] d = 4 -> "4" [] d = 5 -> "5" [] d = 6 -> "6" [] d = 7 -> "7"
      [] d = 8 -> "8" [] d = 9 -> "9"

\* the decimal text of a counter, as an f-string formats it
RECURSIVE Str(_)
Str(n) == IF n < 10 THEN <<Digit(n)>> ELSE Str(n \div 10) \o <<Digit(n % 10)>>

\* pathlib: the last component of a relative path
PathName(s) == SubSeq(s, RFind(s, "/") + 1, Len(s))

\* pathlib: Path(s).stem, the last component without its last suffix
PathStem(s) ==
    LET name == PathName(s)
        i == RFind(name, ".")
    IN IF 1 < i /\ i < Len(name) THEN SubSeq(name, 1, i - 1) ELSE name

DotJpg == <<".", "j", "p", "g">>
Suffix360 == <<"_", "3", "6", "0">>

----------------------------------------------------------------------------
(* fix_aspect_ratio, on the dimensions of the decoded image *)

Modes == {"pad", "crop", "stretch"}

\* abs(width / height - 2.0) < 0.01 in IEEE double arithmetic: the quotient
\* 2.01 rounds below 2.01 and 0.01 rounds above 0.01, so a ratio of exactly
\* 2.01 passes the test, while a ratio of exactly 1.99 rounds to a
\* difference above 0.01 and does not; every other ratio of dimensions below
\* 2^26 is further from the boundary than the rounding error.
NearTwoToOne(w, h) == 199 * h < 100 * w /\ 100 * w <= 201 * h

\* current_ratio > target_ratio
TooWide(w, h) == w > 2 * h

\* an outcome of the normaliser: ok = FALSE when it raises; (cw, ch) is the
\* image after reshaping and before the final upscale, (px, py) the offset at
\* which the source is pasted (pad) or the crop box starts (crop)
Outcome(ok, branch, cw, ch, px, py, w, h) ==
    [ok |-> ok, branch |-> branch, cw |-> cw, ch |-> ch,
     px |-> px, py |-> py, w |-> w, h |-> h]

Failed(branch) == Outcome(FALSE, branch, 0, 0, 0, 0, 0, 0)

\* lines 157-164: upscale to the target resolution when narrower.  Resizing
\* an image with a zero dimension is outside what the library documents:
\* either it raises or it yields the target size.
Upscale(branch, cw, ch, px, py) ==
    IF cw < DEFAULT_WIDTH
    THEN IF cw < 1 \/ ch < 1
         THEN {Failed(branch),
               Outcome(TRUE, branch, cw, ch, px, py, DEFAULT_WIDTH, DEFAULT_HEIGHT)}
         ELSE {Outcome(TRUE, branch, cw, ch, px, py, DEFAULT_WIDTH, DEFAULT_HEIGHT)}
    ELSE {Outcome(TRUE, branch, cw, ch, px, py, cw, ch)}

\* lines 109-119
AlreadyGood(w, h) ==
    IF w < DEFAULT_WIDTH
    THEN {Outcome(TRUE, "near", w, h, 0, 0, DEFAULT_WIDTH, DEFAULT_HEIGHT)}
    ELSE {Outcome(TRUE, "near", w, h, 0, 0, w, h)}

\* a stretch that forgets to change the height
Stretch_KeepsHeight(w, h) == Upscale("stretch", w, h, 0, 0)

\* lines 121-125: Image.resize raises on a target height of 0
Stretch(w, h) ==
    IF w \div 2 < 1
    THEN {Failed("stretch")}
    ELSE Upscale("stretch", w, w \div 2, 0, 0)

\* lines 127-138
Crop(w, h) ==
    IF TooWide(w, h)
    THEN Upscale("crop_wide", 2 * h, h, (w - 2 * h) \div 2, 0)
    ELSE Upscale("crop_tall", w, w \div 2, 0, (h - w \div 2) \div 2)

\* a pad that pastes the source at the origin instead of centring it
Pad_AtOrigin(w, h) ==
    IF TooWide(w, h)
    THEN Upscale("pad_wide", w, w \div 2, 0, 0)
    ELSE Upscale("pad_tall", 2 * h, h, 0, 0)

\* a pad that always letterboxes (bars at the top and bottom)
Pad_Letterbox(w, h) == Upscale("pad_wide", w, w \div 2, 0, (w \div 2 - h) \div 2)

\* lines 140-155
Pad(w, h) ==
    IF TooWide(w, h)
    THEN Upscale("pad_wide", w, w \div 2, 0, (w \div 2 - h) \div 2)
    ELSE Upscale("pad_tall", 2 * h, h, (2 * h - w) \div 2, 0)

\* the set of outcomes of fix_aspect_ratio on a decodable w x h image
fix_aspect_ratio(w, h, mode) ==
    IF NearTwoToOne(w, h) THEN AlreadyGood(w, h)
    ELSE IF mode = "stretch" THEN Stretch(w, h)
    ELSE IF mode = "crop" THEN Crop(w, h)
    ELSE Pad(w, h)

----------------------------------------------------------------------------
(* Files and directories *)

VARIABLES
    gallery,    \* GALLERY_DIR: file name -> content, the regular files in it
    thumbs,     \* THUMBS_DIR (GALLERY_DIR/thumbs): file name -> content
    req,        \* the request handled last
    resp,       \* the response to it
    apiCalled,  \* whether that request called client.chat.completions.create
    norm,       \* a run of fix_aspect_ratio on its own: input, then outcome
    threads     \* requests handled at the same time: each thread's position
                \* in its handler and the handler's local variables

vars == <<gallery, thumbs, req, resp, apiCalled, norm, threads>>

\* the bytes of a file: what Image.open makes of them (fmt "jpeg" decodes,
\* "junk" and "empty" do not), the pixel size, whether the GPano tags are in,
\* and id/via standing for the pixels: the picture and how it was processed.
\* The pixel size of a thumbnail is not modelled.
File(fmt, w, h, gpano, id, via) ==
    [fmt |-> fmt, w |-> w, h |-> h, gpano |-> gpano, id |-> id, via |-> via]

NoFile == File("none", 0, 0, FALSE, "-", "-")
EmptyFile == File("empty", 0, 0, FALSE, "-", "-")

\* Image.open succeeds
Decodable(f) == f.fmt = "jpeg"

NoFiles == [n \in {} |-> NoFile]
Put(dir, name, f) == [n \in DOMAIN dir \cup {name} |-> IF n = name THEN f ELSE dir[n]]
Remove(dir, name) == [n \in DOMAIN dir \ {name} |-> dir[n]]

ThumbsDir == <<"t", "h", "u", "m", "b", "s">>
ThumbsPrefix == ThumbsDir \o <<"/">>

\* the directory in which GALLERY_DIR / p lies: the gallery itself, its
\* thumbs subdirectory, or a directory that does not exist
Dir(p) ==
    IF "/" \notin Range(p) THEN "gallery"
    ELSE IF StartsWith(p, ThumbsPrefix)
            /\ "/" \notin Range(SubSeq(p, Len(ThumbsPrefix) + 1, Len(p)))
         THEN "thumbs"
         ELSE "missing"

\* (GALLERY_DIR / p).exists()
Exists(g, t, p) ==
    CASE Dir(p) = "gallery" -> p \in DOMAIN g \/ p = ThumbsDir
      [] Dir(p) = "thumbs" -> PathName(p) \in DOMAIN t
      [] OTHER -> FALSE

\* open(GALLERY_DIR / p, "wb") and f.write(content), in an existing directory
WriteG(g, t, p, f) == IF Dir(p) = "gallery" THEN Put(g, p, f) ELSE g
WriteT(g, t, p, f) == IF Dir(p) = "thumbs" THEN Put(t, PathName(p), f) ELSE t

----------------------------------------------------------------------------
(* Request bodies *)

\* the text of an image field is a sequence of tokens: an optional data-URL
\* header and comma, then the base64 text of one of these payloads
B64Decode(s) ==
    CASE s = <<"A">> -> File("jpeg", 4000, 4000, FALSE, "A", "raw")
      [] s = <<"B">> -> File("jpeg", 6001, 3000, FALSE, "B", "raw")
      [] s = <<"J">> -> File("junk", 0, 0, FALSE, "J", "raw")
      [] OTHER -> NoFile

\* base64.b64decode returns (it raises binascii.Error otherwise)
B64Valid(s) == s \in {<<"A">>, <<"B">>, <<"J">>}

\* "Remove data URL prefix if present"
StripDataUrl(s) == IF "," \in Range(s) THEN SplitComma(s) ELSE s

\* data.get(field): the value, or a falsy default when the field is absent
Has(body, field) == field \in body.fields

\* `not data`: no JSON body, or an empty object
NoData(body) == body.fields = {}

\* `not image_data`: the field is absent, null or the empty string
NoImage(body) == ~Has(body, "image") \/ body.image = <<>>

Response(status, error, filename, gpano, image, listing) ==
    [status |-> status, error |-> error, filename |-> filename,
     gpano_injected |-> gpano, image |-> image, listing |-> listing]

ErrorResponse(status, error) == Response(status, error, <<>>, FALSE, NoFile, {})

\* what a handler does: the directories after it and its response
Result(g, t, r, api) == [g |-> g, t |-> t, resp |-> r, api |-> api]

----------------------------------------------------------------------------
(* inject_gpano_metadata, create_thumbnail *)

\* how the exiftool subprocess ends: it tags the file, exits non-zero, or is
\* not installed (FileNotFoundError)
ExifOutcomes == {"ok", "nonzero", "missing"}

\* inject_gpano_metadata returns True
GpanoInjected(f, exif) == Decodable(f) /\ exif = "ok"

\* the file after inject_gpano_metadata: exiftool rewrites it in place
GpanoFile(f, exif) ==
    IF GpanoInjected(f, exif) THEN [f EXCEPT !.gpano = TRUE] ELSE f

\* create_thumbnail writes a thumbnail: the image opens and img.save succeeds
ThumbMade(f, io) == Decodable(f) /\ io

Thumbnail(f) == File("jpeg", 0, 0, FALSE, f.id, "thumb")

\* THUMBS_DIR after create_thumbnail(GALLERY_DIR / name)
create_thumbnail(t, name, f, io) ==
    IF ThumbMade(f, io) THEN Put(t, name, Thumbnail(f)) ELSE t

\* a pipeline that gives up when the metadata or the thumbnail fails
StoreAndRespond_Aborting(g, t, name, f, exif, io, api) ==
    IF GpanoInjected(f, exif) /\ ThumbMade(f, io)
    THEN Result(Put(g, name, GpanoFile(f, exif)),
                create_thumbnail(t, name, GpanoFile(f, exif), io),
                Response(200, "", name, TRUE, GpanoFile(f, exif), {}),
                api)
    ELSE Result(Put(g, name, f), t, ErrorResponse(500, "metadata failed"), api)

\* lines 299-321 and 438-462: write the image, inject the metadata, create
\* the thumbnail, read the file back and answer with it
StoreAndRespond(g, t, name, f, exif, io, api) ==
    LET tagged == GpanoFile(f, exif)
    IN Result(Put(g, name, tagged),
              create_thumbnail(t, name, tagged, io),
              Response(200, "", name, GpanoInjected(f, exif), tagged, {}),
              api)

----------------------------------------------------------------------------
(* POST /api/gallery *)

UUIDs == {<<"0", "0", "0", "0", "0", "0", "0", "a">>,
          <<"f", "f", "f", "f", "f", "f", "f", "f">>}

ImagePrefix == <<"i", "m", "a", "g", "e", "_">>

\* "Ensure .jpg extension"
EnsureJpg(name) ==
    IF EndsWith(name, DotJpg) THEN name ELSE RSplitDot(name) \o DotJpg

\* the while loop of lines 519-525 and of lines 432-436: stem_1.jpg,
\* stem_2.jpg, ... until the path does not exist
RECURSIVE AvoidOverwrite(_, _, _, _, _)
AvoidOverwrite(g, t, stem, counter, name) ==
    IF Exists(g, t, name)
    THEN AvoidOverwrite(g, t, stem, counter + 1,
                        stem \o <<"_">> \o Str(counter) \o DotJpg)
    ELSE name

\* a save without the existence loop
SaveTarget_Overwriting(g, t, name) == EnsureJpg(name)

\* the file name api_gallery_save writes to
SaveTarget(g, t, name) ==
    AvoidOverwrite(g, t, RSplitDot(EnsureJpg(name)), 1, EnsureJpg(name))

api_gallery_save(g, t, body, uuid) ==
    IF NoData(body) THEN Result(g, t, ErrorResponse(400, "No JSON data provided"), FALSE)
    ELSE IF NoImage(body) THEN Result(g, t, ErrorResponse(400, "No image provided"), FALSE)
    ELSE
      LET name == IF Has(body, "name") THEN body.name ELSE ImagePrefix \o uuid
          data == StripDataUrl(body.image)
          target == SaveTarget(g, t, name)
      IN IF Dir(target) = "missing"
         THEN \* open() raises FileNotFoundError
              Result(g, t, ErrorResponse(500, "open failed"), FALSE)
         ELSE IF ~B64Valid(data)
         THEN \* the file is already open for writing when b64decode raises
              Result(WriteG(g, t, target, EmptyFile), WriteT(g, t, target, EmptyFile),
                     ErrorResponse(500, "decode failed"), FALSE)
         ELSE Result(WriteG(g, t, target, B64Decode(data)),
                     WriteT(g, t, target, B64Decode(data)),
                     Response(200, "", target, FALSE, NoFile, {}), FALSE)

----------------------------------------------------------------------------
(* POST /api/fix-ratio *)

DefaultName == <<"i", "m", "a", "g", "e">>

\* the file name api_fix_ratio writes to
FixTarget(g, t, name) ==
    AvoidOverwrite(g, t, PathStem(name) \o Suffix360, 1,
                   PathStem(name) \o Suffix360 \o DotJpg)

\* the JPEG bytes fix_aspect_ratio returns with outcome o on raw image f
Processed(f, o) == File("jpeg", o.w, o.h, FALSE, f.id, o.branch)

\* the outcomes of fix_aspect_ratio on the bytes f: Image.open raises on
\* bytes that are no image
NormaliseBytes(f, mode) ==
    IF Decodable(f) THEN fix_aspect_ratio(f.w, f.h, mode) ELSE {Failed("open")}

\* body.save is save_to_gallery, body.mode the mode; o is the outcome of
\* fix_aspect_ratio when it is reached
api_fix_ratio(g, t, body, o, exif, io) ==
    IF NoData(body) THEN Result(g, t, ErrorResponse(400, "No JSON data provided"), FALSE)
    ELSE IF NoImage(body) THEN Result(g, t, ErrorResponse(400, "No image provided"), FALSE)
    ELSE
      LET data == StripDataUrl(body.image)
          raw == B64Decode(data)
          name == IF Has(body, "name") THEN body.name ELSE DefaultName
          filename == PathStem(name) \o Suffix360 \o DotJpg
      IN IF ~B64Valid(data) THEN Result(g, t, ErrorResponse(500, "decode failed"), FALSE)
         ELSE IF ~o.ok
         THEN Result(g, t, ErrorResponse(500, "cannot process image"), FALSE)
         ELSE IF body.save
         THEN StoreAndRespond(g, t, FixTarget(g, t, name), Processed(raw, o), exif, io, FALSE)
         ELSE Result(g, t, Response(200, "", filename, FALSE, Processed(raw, o), {}), FALSE)

----------------------------------------------------------------------------
(* POST /api/generate *)

\* how the call to the external model ends: no API key (get_client raises
\* before any call), the call raises, the answer holds no image, or it holds
\* a data URL with the base64 text of payload A or J
ApiOutcomes == {"nokey", "raise", "noimage", "A", "J"}

GeneratedPrefix == <<"a", "i", "_", "g", "e", "n", "e", "r", "a", "t", "e", "d", "_">>

\* f"ai_generated_{uuid.uuid4().hex[:8]}_360.jpg"
GeneratedName(uuid) == GeneratedPrefix \o uuid \o Suffix360 \o DotJpg

\* `not prompt`
NoPrompt(body) == ~Has(body, "prompt") \/ body.prompt = ""

\* lines 285-293: the bytes generate_panorama saves
GeneratedBytes(raw, fix_ratio, o) ==
    IF fix_ratio /\ o.ok THEN Processed(raw, o) ELSE raw

generate_panorama(g, t, body, api, uuid, o, exif, io) ==
    IF api = "nokey" THEN Result(g, t, ErrorResponse(500, "OPENROUTER_API_KEY not set"), FALSE)
    ELSE IF api = "raise" THEN Result(g, t, ErrorResponse(500, "api error"), TRUE)
    ELSE IF api = "noimage" THEN Result(g, t, ErrorResponse(500, "No image generated"), TRUE)
    ELSE StoreAndRespond(g, t, GeneratedName(uuid),
                         GeneratedBytes(B64Decode(<<api>>), body.fix_ratio, o),
                         exif, io, TRUE)

\* a handler that checks the prompt only
api_generate_PromptOnly(g, t, body, api, uuid, o, exif, io) ==
    IF NoData(body) THEN Result(g, t, ErrorResponse(400, "No JSON data provided"), FALSE)
    ELSE IF NoPrompt(body) THEN Result(g, t, ErrorResponse(400, "No prompt provided"), FALSE)
    ELSE generate_panorama(g, t, body, api, uuid, o, exif, io)

api_generate(g, t, body, api, uuid, o, exif, io) ==
    IF NoData(body) THEN Result(g, t, ErrorResponse(400, "No JSON data provided"), FALSE)
    ELSE IF NoImage(body) THEN Result(g, t, ErrorResponse(400, "No image provided"), FALSE)
    ELSE IF NoPrompt(body) THEN Result(g, t, ErrorResponse(400, "No prompt provided"), FALSE)
    ELSE generate_panorama(g, t, body, api, uuid, o, exif, io)

----------------------------------------------------------------------------
(* GET /api/gallery, DELETE /api/gallery/<filename> *)

\* GALLERY_DIR.glob('*.jpg')
GlobJpg(g) == {n \in DOMAIN g : EndsWith(n, DotJpg)}

\* failing: the files whose thumbnail cannot be written this time.  The
\* order of the listing (by modification time) is not modelled.
api_gallery_list(g, t, failing) ==
    LET made == {n \in GlobJpg(g) : n \notin DOMAIN t /\ ThumbMade(g[n], n \notin failing)}
    IN Result(g,
              [n \in DOMAIN t \cup made |-> IF n \in made THEN Thumbnail(g[n]) ELSE t[n]],
              Response(200, "", <<>>, FALSE, NoFile, GlobJpg(g)),
              FALSE)

\* a delete that leaves the thumbnail behind
api_gallery_delete_KeepsThumb(g, t, filename) ==
    IF ~Exists(g, t, filename) THEN Result(g, t, ErrorResponse(404, "File not found"), FALSE)
    ELSE IF filename \notin DOMAIN g
    THEN Result(g, t, ErrorResponse(500, "unlink failed"), FALSE)
    ELSE Result(Remove(g, filename), t, Response(200, "", <<>>, FALSE, NoFile, {}), FALSE)

\* a delete that removes the thumbnail before it looks for the image
api_gallery_delete_ThumbFirst(g, t, filename) ==
    LET t2 == IF filename \in DOMAIN t THEN Remove(t, filename) ELSE t
    IN IF ~Exists(g, t, filename) THEN Result(g, t2, ErrorResponse(404, "File not found"), FALSE)
       ELSE IF filename \notin DOMAIN g
       THEN Result(g, t, ErrorResponse(500, "unlink failed"), FALSE)
       ELSE Result(Remove(g, filename), t2, Response(200, "", <<>>, FALSE, NoFile, {}), FALSE)

api_gallery_delete(g, t, filename) ==
    IF ~Exists(g, t, filename) THEN Result(g, t, ErrorResponse(404, "File not found"), FALSE)
    ELSE IF filename \notin DOMAIN g
    THEN \* unlink() of the thumbs directory raises
         Result(g, t, ErrorResponse(500, "unlink failed"), FALSE)
    ELSE Result(Remove(g, filename),
                IF filename \in DOMAIN t THEN Remove(t, filename) ELSE t,
                Response(200, "", <<>>, FALSE, NoFile, {}),
                FALSE)

----------------------------------------------------------------------------
(* The requests tried *)

Photo == <<"p", "h", "o", "t", "o">>
PhotoPng == Photo \o <<".", "p", "n", "g">>
PhotoJpg == Photo \o DotJpg
Photo1Jpg == Photo \o <<"_", "1">> \o DotJpg
Photo2Jpg == Photo \o <<"_", "2">> \o DotJpg
ThumbsPhotoJpg == ThumbsPrefix \o PhotoJpg
ElsewherePhotoJpg == <<"x", "/">> \o PhotoJpg

DataUrl(payload) == <<"data:image/jpeg;base64", ",", payload>>

SaveBody(fields, image, name) == [fields |-> fields, image |-> image, name |-> name]

\* the bodies tried in runs of saves alone
SaveNames == {PhotoPng, PhotoJpg, Photo, Photo1Jpg, ThumbsPhotoJpg, ElsewherePhotoJpg}
SaveImages == {<<>>, <<"A">>, <<"J">>, <<"!">>, DataUrl("B")}

SaveBodies ==
    {SaveBody({}, <<>>, <<>>), SaveBody({"name"}, <<>>, PhotoPng)}
    \cup {SaveBody({"image"}, i, <<>>) : i \in SaveImages}
    \cup {SaveBody({"image", "name"}, i, n) : i \in SaveImages, n \in SaveNames}

\* the bodies tried among the other requests
ServerSaveBodies ==
    {SaveBody({}, <<>>, <<>>), SaveBody({"name"}, <<>>, PhotoPng),
     SaveBody({"image"}, <<"A">>, <<>>)}
    \cup {SaveBody({"image", "name"}, i, n) :
            i \in {<<"A">>, <<"!">>, DataUrl("J")},
            n \in {PhotoPng, ThumbsPhotoJpg, ElsewherePhotoJpg}}

FixBody(fields, image, name, mode, save) ==
    [fields |-> fields, image |-> image, name |-> name, mode |-> mode, save |-> save]

FixBodies ==
    {FixBody({}, <<>>, <<>>, "pad", TRUE), FixBody({"name"}, <<>>, PhotoPng, "pad", TRUE),
     FixBody({"image"}, <<"A">>, <<>>, "pad", TRUE)}
    \cup {FixBody({"image", "name"}, i, PhotoPng, "pad", s) :
            i \in {<<"A">>, <<"!">>, DataUrl("J")}, s \in BOOLEAN}
    \cup {FixBody({"image", "name"}, <<"A">>, ThumbsPhotoJpg, m, FALSE) : m \in Modes}

GenBody(fields, image, prompt, fix_ratio, mode) ==
    [fields |-> fields, image |-> image, prompt |-> prompt,
     fix_ratio |-> fix_ratio, mode |-> mode]

GenBodies ==
    {GenBody({}, <<>>, "", TRUE, "pad"),
     GenBody({"prompt"}, <<>>, "night", TRUE, "pad"),
     GenBody({"image"}, <<"A">>, "", TRUE, "pad"),
     GenBody({"image", "prompt"}, <<>>, "night", TRUE, "pad"),
     GenBody({"image", "prompt"}, <<"A">>, "", TRUE, "pad"),
     GenBody({"image", "prompt"}, <<>>, "", TRUE, "pad")}
    \cup {GenBody({"image", "prompt"}, DataUrl("A"), "night", f, "pad") : f \in BOOLEAN}

DeleteNames == DOMAIN gallery \cup DOMAIN thumbs \cup {PhotoJpg, ThumbsDir}

\* what the environment does during a request: the external model's answer,
\* the uuid drawn, how exiftool ends and whether the thumbnail can be written.
\* A part the request never reaches is "-" (io: TRUE).
Env(api, uuid, exif, io) == [api |-> api, uuid |-> uuid, exif |-> exif, io |-> io]

NoUuid == <<>>

\* the environments of a request that stores bytes f through
\* inject_gpano_metadata and create_thumbnail
StoreEnvs(f, apis, uuids) ==
    IF Decodable(f)
    THEN {Env(a, u, e, i) : a \in apis, u \in uuids, e \in ExifOutcomes, i \in BOOLEAN}
    ELSE {Env(a, u, "-", TRUE) : a \in apis, u \in uuids}

FixEnvs(body) ==
    IF NoData(body) \/ NoImage(body) \/ ~body.save
    THEN {Env("-", NoUuid, "-", TRUE)}
    ELSE StoreEnvs(B64Decode(StripDataUrl(body.image)), {"-"}, {NoUuid})

GenEnvs(body) ==
    IF NoData(body) \/ NoImage(body) \/ NoPrompt(body)
    THEN {Env("-", NoUuid, "-", TRUE)}
    ELSE {Env(a, NoUuid, "-", TRUE) : a \in {"nokey", "raise", "noimage"}}
         \cup StoreEnvs(B64Decode(<<"A">>), {"A"}, UUIDs)
         \cup StoreEnvs(B64Decode(<<"J">>), {"J"}, UUIDs)

SaveEnvs(body) ==
    IF Has(body, "image") /\ ~Has(body, "name")
    THEN {Env("-", u, "-", TRUE) : u \in UUIDs}
    ELSE {Env("-", NoUuid, "-", TRUE)}

----------------------------------------------------------------------------
(* The server: one request at a time, each handled to completion *)

NoRequest == [op |-> "none"]
NoResponse == Response(0, "", <<>>, FALSE, NoFile, {})
NormIdle == [stage |-> "idle", w |-> 0, h |-> 0, mode |-> "pad", out |-> Failed("none")]

Threads == 1..MaxThreads

\* a thread that has no request yet; name, stem and counter are the locals of
\* the collision loop, bytes what the handler is about to write, order the
\* position of its write among the writes of all threads (0: none yet)
ThreadIdle ==
    [pc |-> "idle", kind |-> "-", name |-> <<>>, stem |-> <<>>, counter |-> 0,
     bytes |-> NoFile, valid |-> FALSE, order |-> 0, resp |-> NoResponse]

NoThreads == [p \in Threads |-> ThreadIdle]

Init ==
    /\ gallery = NoFiles
    /\ thumbs = NoFiles
    /\ req = NoRequest
    /\ resp = NoResponse
    /\ apiCalled = FALSE
    /\ norm = NormIdle
    /\ threads = NoThreads

Room(max) == Cardinality(DOMAIN gallery) < max /\ Cardinality(DOMAIN thumbs) < max

Handle(r, request) ==
    /\ gallery' = r.g
    /\ thumbs' = r.t
    /\ resp' = r.resp
    /\ apiCalled' = r.api
    /\ req' = request
    /\ UNCHANGED <<norm, threads>>

SaveRequest(bodies) ==
    \E body \in bodies : \E env \in SaveEnvs(body) :
      Handle(api_gallery_save(gallery, thumbs, body, env.uuid),
             [op |-> "save", body |-> body])

GallerySave == Room(MaxFiles) /\ SaveRequest(ServerSaveBodies)

FixRatio ==
    /\ Room(MaxFiles)
    /\ \E body \in FixBodies : \E env \in FixEnvs(body) :
         \E o \in NormaliseBytes(B64Decode(StripDataUrl(body.image)), body.mode) :
           Handle(api_fix_ratio(gallery, thumbs, body, o, env.exif, env.io),
                  [op |-> "fix", body |-> body, env |-> env])

Generate ==
    /\ Room(MaxFiles)
    /\ \E body \in GenBodies : \E env \in GenEnvs(body) :
         \E o \in NormaliseBytes(B64Decode(<<env.api>>), body.mode) :
           Handle(api_generate(gallery, thumbs, body, env.api, env.uuid, o,
                               env.exif, env.io),
                  [op |-> "generate", body |-> body, env |-> env])

GalleryList ==
    \E failing \in SUBSET {n \in GlobJpg(gallery) :
                             n \notin DOMAIN thumbs /\ Decodable(gallery[n])} :
      Handle(api_gallery_list(gallery, thumbs, failing), [op |-> "list"])

GalleryDelete ==
    \E filename \in DeleteNames :
      Handle(api_gallery_delete(gallery, thumbs, filename),
             [op |-> "delete", filename |-> filename])

Next == GallerySave \/ FixRatio \/ Generate \/ GalleryList \/ GalleryDelete

Spec == Init /\ [][Next]_vars

----------------------------------------------------------------------------
(* POST /api/gallery on its own: sequences of saves *)

SaveOnly == Room(MaxSaved) /\ SaveRequest(SaveBodies)

NextSave == SaveOnly

SpecSave == Init /\ [][NextSave]_vars

----------------------------------------------------------------------------
(* fix_aspect_ratio on its own, over image sizes *)

ScenarioDims == {100, 199, 200, 201, 1500, 4000, 8000, 12000, 12001}

Dims ==
    (1..MaxSmallDim)
    \cup ((DEFAULT_HEIGHT - DimBand)..(DEFAULT_HEIGHT + DimBand))
    \cup ((DEFAULT_WIDTH - DimBand)..(DEFAULT_WIDTH + DimBand))
    \cup ScenarioDims

InitNorm ==
    /\ gallery = NoFiles
    /\ thumbs = NoFiles
    /\ req = NoRequest
    /\ resp = NoResponse
    /\ apiCalled = FALSE
    /\ threads = NoThreads
    /\ norm \in [stage : {"input"}, w : Dims, h : Dims, mode : Modes,
                 out : {Failed("none")}]

Normalise ==
    /\ norm.stage = "input"
    /\ \E o \in fix_aspect_ratio(norm.w, norm.h, norm.mode) :
         norm' = [norm EXCEPT !.stage = "done", !.out = o]
    /\ UNCHANGED <<gallery, thumbs, req, resp, apiCalled, threads>>

NextNorm == Normalise

SpecNorm == InitNorm /\ [][NextNorm]_vars

----------------------------------------------------------------------------
(* POST /api/gallery and POST /api/fix-ratio handled at the same time: one   *)
(* thread per request, no lock.  A step is what a handler does between two  *)
(* looks at the gallery directory: the statements before the collision      *)
(* loop, one test of the loop's condition, the `with open` block, and the   *)
(* statements after it.                                                     *)

\* a thread's handler returns response r
Answer(th, r) == [th EXCEPT !.pc = "done", !.resp = r]

\* the bodies of the requests handled at the same time: the same name
\* throughout, pictures A and B, text that is no base64, bytes that are no
\* picture, and no image at all
RaceSaveBodies ==
    {SaveBody({"name"}, <<>>, PhotoPng)}
    \cup {SaveBody({"image", "name"}, i, PhotoPng) : i \in {<<"A">>, DataUrl("B"), <<"!">>}}

RaceFixBodies ==
    {FixBody({"name"}, <<>>, PhotoPng, "pad", TRUE),
     FixBody({"image", "name"}, <<"A">>, PhotoPng, "pad", FALSE)}
    \cup {FixBody({"image", "name"}, i, PhotoPng, "pad", TRUE) :
            i \in {<<"A">>, DataUrl("B"), DataUrl("J"), <<"!">>}}

\* api_gallery_save, lines 498-521: up to the first test of the loop
SaveBegin(body, uuid) ==
    LET th == [ThreadIdle EXCEPT !.kind = "save"]
        name == EnsureJpg(IF Has(body, "name") THEN body.name ELSE ImagePrefix \o uuid)
        data == StripDataUrl(body.image)
    IN IF NoData(body) THEN Answer(th, ErrorResponse(400, "No JSON data provided"))
       ELSE IF NoImage(body) THEN Answer(th, ErrorResponse(400, "No image provided"))
       ELSE [th EXCEPT !.pc = "scan", !.name = name, !.stem = RSplitDot(name),
                       !.counter = 1, !.bytes = B64Decode(data), !.valid = B64Valid(data)]

\* api_fix_ratio, lines 403-432: up to the first test of the loop; o is the
\* outcome of fix_aspect_ratio when it is reached
FixBegin(body, o) ==
    LET th == [ThreadIdle EXCEPT !.kind = "fix"]
        data == StripDataUrl(body.image)
        raw == B64Decode(data)
        name == IF Has(body, "name") THEN body.name ELSE DefaultName
        stem == PathStem(name) \o Suffix360
    IN IF NoData(body) THEN Answer(th, ErrorResponse(400, "No JSON data provided"))
       ELSE IF NoImage(body) THEN Answer(th, ErrorResponse(400, "No image provided"))
       ELSE IF ~B64Valid(data) THEN Answer(th, ErrorResponse(500, "decode failed"))
       ELSE IF ~o.ok THEN Answer(th, ErrorResponse(500, "cannot process image"))
       ELSE IF ~body.save
       THEN Answer(th, Response(200, "", stem \o DotJpg, FALSE, Processed(raw, o), {}))
       ELSE [th EXCEPT !.pc = "scan", !.name = stem \o DotJpg, !.stem = stem,
                       !.counter = 1, !.bytes = Processed(raw, o), !.valid = TRUE]

\* one test of `while filepath.exists()` (line 522, line 433) and, when the
\* path exists, the body of the loop
ScanStep(g, t, th) ==
    IF Exists(g, t, th.name)
    THEN [th EXCEPT !.name = th.stem \o <<"_">> \o Str(th.counter) \o DotJpg,
                    !.counter = th.counter + 1]
    ELSE [th EXCEPT !.pc = "write"]

\* the number of writes so far, plus one
NextOrder == 1 + Cardinality({p \in Threads : threads[p].order > 0})

\* a write that creates the file exclusively: it fails when the file exists
OpenAndWrite_Exclusive(g, t, th) ==
    IF Exists(g, t, th.name)
    THEN [g |-> g, th |-> Answer(th, ErrorResponse(500, "file exists"))]
    ELSE IF ~th.valid
    THEN [g |-> Put(g, th.name, EmptyFile),
          th |-> Answer(th, ErrorResponse(500, "decode failed"))]
    ELSE [g |-> Put(g, th.name, th.bytes),
          th |-> IF th.kind = "save"
                 THEN Answer([th EXCEPT !.order = NextOrder],
                             Response(200, "", th.name, FALSE, NoFile, {}))
                 ELSE [th EXCEPT !.pc = "post", !.order = NextOrder]]

\* the `with open(path, "wb")` block of lines 527-529 and of lines 438-439, on
\* the path the loop was left with: the file is created or truncated, then
\* written; in api_gallery_save the base64 text is decoded after the open
OpenAndWrite(g, t, th) ==
    IF ~th.valid
    THEN [g |-> Put(g, th.name, EmptyFile),
          th |-> Answer(th, ErrorResponse(500, "decode failed"))]
    ELSE [g |-> Put(g, th.name, th.bytes),
          th |-> IF th.kind = "save"
                 THEN Answer([th EXCEPT !.order = NextOrder],
                             Response(200, "", th.name, FALSE, NoFile, {}))
                 ELSE [th EXCEPT !.pc = "post", !.order = NextOrder]]

\* api_fix_ratio, lines 441-462: exiftool and the thumbnailer work on the
\* file that is at the path now, and the response carries what is read back
Finish(g, t, th, exif, io) ==
    LET tagged == GpanoFile(g[th.name], exif)
    IN [g |-> Put(g, th.name, tagged),
        t |-> create_thumbnail(t, th.name, tagged, io),
        th |-> Answer(th, Response(200, "", th.name, GpanoInjected(g[th.name], exif),
                                   tagged, {}))]

Step(p, th, g, t) ==
    /\ threads' = [threads EXCEPT ![p] = th]
    /\ gallery' = g
    /\ thumbs' = t
    /\ UNCHANGED <<req, resp, apiCalled, norm>>

SaveStart(p) ==
    /\ threads[p].pc = "idle"
    /\ \E body \in RaceSaveBodies :
         Step(p, SaveBegin(body, NoUuid), gallery, thumbs)

FixStart(p) ==
    /\ threads[p].pc = "idle"
    /\ \E body \in RaceFixBodies :
         \E o \in NormaliseBytes(B64Decode(StripDataUrl(body.image)), body.mode) :
           Step(p, FixBegin(body, o), gallery, thumbs)

Scan(p) ==
    /\ threads[p].pc = "scan"
    /\ Step(p, ScanStep(gallery, thumbs, threads[p]), gallery, thumbs)

Write(p) ==
    /\ threads[p].pc = "write"
    /\ LET r == OpenAndWrite(gallery, thumbs, threads[p])
       IN Step(p, r.th, r.g, thumbs)

Post(p) ==
    /\ threads[p].pc = "post"
    /\ \E exif \in ExifOutcomes : \E io \in BOOLEAN :
         LET r == Finish(gallery, thumbs, threads[p], exif, io)
         IN Step(p, r.th, r.g, r.t)

NextRace ==
    \E p \in Threads : SaveStart(p) \/ FixStart(p) \/ Scan(p) \/ Write(p) \/ Post(p)

SpecRace == Init /\ [][NextRace]_vars

----------------------------------------------------------------------------
(* Properties of the gallery handlers *)

\* every file of a directory is still there with the same bytes
Kept(before, after) ==
    \A n \in DOMAIN before : n \in DOMAIN after /\ after[n] = before[n]

\* N.jpg for k = 0, N_k.jpg for k >= 1
Candidate(N, k) == IF k = 0 THEN N \o DotJpg ELSE N \o <<"_">> \o Str(k) \o DotJpg

\* the first of N.jpg, N_1.jpg, N_2.jpg, ... that does not exist yet
FirstFree(g, t, N) ==
    Candidate(N, CHOOSE k \in 0..(MaxSaved + 1) :
                   /\ ~Exists(g, t, Candidate(N, k))
                   /\ \A j \in 0..(k - 1) : Exists(g, t, Candidate(N, j)))

\* a name with its last four characters (".jpg") cut off
WithoutJpg(name) == SubSeq(name, 1, Len(name) - 4)

C1_SaveStep ==
    req'.op = "save" =>
      /\ Kept(gallery, gallery')
      /\ Kept(thumbs, thumbs')
      /\ (resp'.status = 200 /\ Has(req'.body, "name")) =>
           /\ resp'.filename =
                FirstFree(gallery, thumbs, WithoutJpg(EnsureJpg(req'.body.name)))
           /\ ~Exists(gallery, thumbs, resp'.filename)
           /\ Exists(gallery', thumbs', resp'.filename)
      /\ (resp'.status = 200 /\ req'.body.name = PhotoPng /\ "image" \in req'.body.fields) =>
           /\ DOMAIN gallery = {} => DOMAIN gallery' = {PhotoJpg}
           /\ DOMAIN gallery = {PhotoJpg} => DOMAIN gallery' = {PhotoJpg, Photo1Jpg}

\* C1: in a sequence of saves, each run to completion, a save never changes a
\* file that existed before it; a save of a name that is N.jpg after coercion
\* is stored under the first free name among N.jpg, N_1.jpg, N_2.jpg, ...;
\* and "photo.png" saved twice into an empty gallery gives photo.jpg and
\* then photo_1.jpg.
C1_SaveNeverOverwrites == [][C1_SaveStep]_vars

\* photo.png saved while photo.jpg and photo_1.jpg exist: stored as photo_2.jpg
C1_Witness ==
    /\ req.op = "save"
    /\ resp.status = 200
    /\ req.body.name = PhotoPng
    /\ resp.filename = Photo2Jpg
    /\ DOMAIN gallery = {PhotoJpg, Photo1Jpg, Photo2Jpg}

C2_Step ==
    /\ (req'.op = "delete" /\ req'.filename \in DOMAIN gallery) =>
         /\ resp'.status = 200
         /\ req'.filename \notin DOMAIN gallery'
         /\ req'.filename \notin DOMAIN thumbs'
         /\ Kept(gallery', gallery) /\ Kept(thumbs', thumbs)
    /\ req'.op = "list" =>
         /\ resp'.listing \subseteq DOMAIN gallery
         /\ gallery' = gallery

\* C2: a DELETE of a file name that is in the gallery removes the image and
\* the thumbnail of that name (and nothing is created by it), and a listing
\* names only files that are in the gallery when it runs: a deleted name
\* stays out of every later listing until a request creates the file again.
C2_DeleteRemovesAndListingOmits == [][C2_Step]_vars

\* a delete has removed an image and its thumbnail, and the listing after it
\* shows the file that is left
C2_Witness ==
    /\ req.op = "list"
    /\ PhotoJpg \notin resp.listing
    /\ PhotoJpg \notin DOMAIN gallery
    /\ PhotoJpg \notin DOMAIN thumbs
    /\ Photo1Jpg \in resp.listing

C3_Step ==
    (req'.op = "delete" /\ req'.filename \notin DOMAIN gallery /\ req'.filename # ThumbsDir) =>
      /\ resp'.status = 404
      /\ gallery' = gallery
      /\ thumbs' = thumbs

\* C3: a DELETE of a file name that is not in the gallery answers 404 and
\* leaves the gallery and the thumbnails as they were, a thumbnail of that
\* name included.
C3_DeleteMissingChangesNothing == [][C3_Step]_vars

\* a 404 for a name whose thumbnail exists
C3_Witness ==
    /\ req.op = "delete"
    /\ resp.status = 404
    /\ req.filename \in DOMAIN thumbs

C4_Step ==
    (/\ req'.op = "generate"
     /\ req'.body.fields # {}
     /\ ("image" \notin req'.body.fields \/ req'.body.image = <<>>)) =>
      /\ resp'.status = 400
      /\ resp'.error = "No image provided"
      /\ ~apiCalled'
      /\ gallery' = gallery
      /\ thumbs' = thumbs

\* C4: POST /api/generate with a body that has no image, or an empty one,
\* answers 400 "No image provided" whether or not it has a prompt (the image
\* is checked first), calls no external API and changes no file.
C4_GenerateWithoutImageIs400 == [][C4_Step]_vars

\* a body with a prompt and no image field, answered 400, with files present
C4_Witness ==
    /\ req.op = "generate"
    /\ req.body.fields = {"prompt"}
    /\ req.body.prompt = "night"
    /\ resp.status = 400
    /\ DOMAIN gallery # {}

----------------------------------------------------------------------------
(* Properties of fix_aspect_ratio *)

Done == norm.stage = "done"

\* the input passes the 1% test of line 110
InputNear == 199 * norm.h < 100 * norm.w /\ 100 * norm.w <= 201 * norm.h

\* C5 as claimed: every image fix_aspect_ratio returns is exactly twice as
\* wide as it is high.
C5_ExactlyTwoToOne ==
    (Done /\ norm.out.ok) => norm.out.w = 2 * norm.out.h

\* C5, amended: an image fix_aspect_ratio returns is exactly twice as wide as
\* it is high, except when its width is at least 6000 and either the input
\* passed the 1% test and is returned at its own size, or the width is odd
\* and the height is floor(width / 2).
C5_TwoToOneUpToRounding ==
    (Done /\ norm.out.ok) =>
      \/ norm.out.w = 2 * norm.out.h
      \/ /\ norm.out.w >= DEFAULT_WIDTH
         /\ InputNear
         /\ norm.out.w = norm.w
         /\ norm.out.h = norm.h
      \/ /\ norm.out.w >= DEFAULT_WIDTH
         /\ norm.out.w % 2 = 1
         /\ norm.out.h = norm.out.w \div 2

\* a 6001 x 3000 input, returned as it is
C5_Witness ==
    /\ Done
    /\ norm.w = DEFAULT_WIDTH + 1
    /\ norm.h = DEFAULT_HEIGHT
    /\ norm.out.ok
    /\ norm.out.w = norm.w
    /\ norm.out.h = norm.h

\* C6: in pad mode, for an input that fails the 1% test, the canvas is at
\* least as wide and as high as the source, the source is pasted at a
\* non-negative offset with its full extent inside the canvas, the offset is
\* floor((canvas - source) / 2) on each axis, and one axis keeps the
\* source's size.
C6_PadKeepsSource ==
    (Done /\ norm.mode = "pad" /\ ~InputNear) =>
      /\ norm.out.ok
      /\ norm.out.cw >= norm.w
      /\ norm.out.ch >= norm.h
      /\ norm.out.px >= 0
      /\ norm.out.py >= 0
      /\ norm.out.px + norm.w <= norm.out.cw
      /\ norm.out.py + norm.h <= norm.out.ch
      /\ norm.out.px = (norm.out.cw - norm.w) \div 2
      /\ norm.out.py = (norm.out.ch - norm.h) \div 2
      /\ (norm.out.cw = norm.w \/ norm.out.ch = norm.h)

\* a 12 x 1 strip, letterboxed on a 12 x 6 canvas at row 2
C6_Witness ==
    /\ Done
    /\ norm.mode = "pad"
    /\ norm.w = 12
    /\ norm.h = 1
    /\ norm.out.ch = 6
    /\ norm.out.py = 2

Square4000 == Done /\ norm.mode = "pad" /\ norm.w = 4000 /\ norm.h = 4000

\* C7 as claimed: a 4000 x 4000 input in pad mode gives 8000 x 4000 with the
\* source centred vertically between a top and a bottom band.
C7_SquareLetterboxed ==
    Square4000 =>
      /\ norm.out.w = 8000 /\ norm.out.h = 4000
      /\ norm.out.py > 0
      /\ norm.out.ch - norm.out.py - norm.h > 0

\* C7, amended: a 4000 x 4000 input in pad mode gives 8000 x 4000, not
\* upscaled, with the source at full height (no top or bottom band) and
\* centred horizontally between a left and a right band of 2000 columns.
C7_SquarePillarboxed ==
    Square4000 =>
      /\ norm.out.ok
      /\ norm.out.w = 8000 /\ norm.out.h = 4000
      /\ norm.out.cw = 8000 /\ norm.out.ch = 4000
      /\ norm.out.py = 0
      /\ norm.out.px = 2000
      /\ norm.out.cw - norm.out.px - norm.w = 2000

C7_Witness == Square4000 /\ norm.out.px = 2000

----------------------------------------------------------------------------
(* Properties of the pipeline: normalise, store, tag, thumbnail *)

\* the request reached the point where its image is written to the gallery:
\* a normalised picture in /api/fix-ratio, the picture of the external model
\* in /api/generate (readable, A, or not, J)
Stored ==
    \/ /\ req.op = "fix"
       /\ "image" \in req.body.fields
       /\ req.body.image = <<"A">>
       /\ req.body.save
    \/ /\ req.op = "generate"
       /\ req.env.api \in {"A", "J"}

\* C8: in /api/fix-ratio with save_to_gallery and in /api/generate, whatever
\* exiftool and the thumbnail writer do, the response is a success with the
\* file name and the image, the file is in the gallery with those bytes, and
\* gpano_injected is true exactly when the injection succeeded: the image
\* was readable and exiftool tagged it.
C8_SoftFailuresDoNotAbort ==
    Stored =>
      /\ resp.status = 200
      /\ resp.filename \in DOMAIN gallery
      /\ resp.image = gallery[resp.filename]
      /\ resp.gpano_injected <=> (Decodable(resp.image) /\ req.env.exif = "ok")
      /\ resp.gpano_injected <=> resp.image.gpano

\* exiftool missing and the thumbnail not written: still a success
C8_Witness ==
    /\ Stored
    /\ Decodable(resp.image)
    /\ req.env.exif = "missing"
    /\ ~req.env.io
    /\ resp.status = 200
    /\ resp.filename \in DOMAIN gallery
    /\ resp.filename \notin DOMAIN thumbs

\* the request asked for normalisation of bytes that are no image
NormaliserFails(r) ==
    \/ /\ r.op = "fix"
       /\ "image" \in r.body.fields
       /\ r.body.image = DataUrl("J")
    \/ /\ r.op = "generate"
       /\ r.body.fix_ratio
       /\ r.env.api = "J"

C9_Step ==
    NormaliserFails(req') =>
      /\ resp'.status >= 400
      /\ gallery' = gallery
      /\ thumbs' = thumbs

\* C9 as claimed: when fix_aspect_ratio fails on its input, /api/fix-ratio
\* and /api/generate with fix_ratio answer with an error and write no file.
C9_NormaliserFailureFailsRequest == [][C9_Step]_vars

C10_Step ==
    (req'.op \in {"save", "fix", "generate"} /\ resp'.status = 200) =>
      /\ ~Exists(gallery, thumbs, resp'.filename) \/ (req'.op = "fix" /\ ~req'.body.save)
      /\ Kept(gallery, gallery')

\* C10 as claimed: a request that creates a gallery image never writes to a
\* file name that exists already, and leaves every existing file as it was.
C10_NeverWritesExistingName == [][C10_Step]_vars

----------------------------------------------------------------------------
(* Properties of requests handled at the same time *)

\* thread p leaves the collision loop in this step
LeavesLoop(p) == threads[p].pc = "scan" /\ threads'[p].pc = "write"

\* thread p runs its `with open` block in this step, with bytes to write
Writes(p) ==
    threads[p].pc = "write" /\ threads'[p].pc # "write" /\ threads[p].valid

C11_Step ==
    \A p \in Threads :
      /\ LeavesLoop(p) =>
           /\ ~Exists(gallery, thumbs, threads[p].name)
           /\ threads'[p].name = threads[p].name
           /\ gallery' = gallery
      /\ Writes(p) =>
           /\ threads'[p].name = threads[p].name
           /\ threads'[p].name \in DOMAIN gallery'
           /\ gallery'[threads[p].name] = threads[p].bytes
           /\ \A n \in DOMAIN gallery \ {threads[p].name} :
                n \in DOMAIN gallery' /\ gallery'[n] = gallery[n]
           /\ threads'[p].pc \in {"post", "done"}
           /\ threads'[p].pc = "done" =>
                threads'[p].resp.status = 200 /\ threads'[p].resp.filename = threads[p].name
      /\ (threads[p].pc = "post" /\ threads'[p].pc = "done") =>
           threads'[p].resp.status = 200 /\ threads'[p].resp.filename = threads[p].name

\* C11: the existence test and the write are separate steps with no lock
\* between them.  A thread leaves the collision loop on a path that does not
\* exist at that moment; its write, whenever it comes, goes to that same path
\* without another test, replaces whatever another request has put there in
\* between, and the request is answered as a success with that file name.
C11_ScanThenWriteUnlocked == [][C11_Step]_vars

\* two requests for the same name have both answered success with the same
\* file name, and the gallery holds that one file with the picture of the
\* later writer; the picture of the earlier writer is in no file
C11_Witness ==
    \E p, q \in Threads :
      /\ threads[p].pc = "done" /\ threads[q].pc = "done"
      /\ threads[p].resp.status = 200 /\ threads[q].resp.status = 200
      /\ threads[p].resp.filename = threads[q].resp.filename
      /\ 0 < threads[p].order /\ threads[p].order < threads[q].order
      /\ threads[p].bytes.id # threads[q].bytes.id
      /\ DOMAIN gallery = {threads[q].resp.filename}
      /\ gallery[threads[q].resp.filename].id = threads[q].bytes.id

----------------------------------------------------------------------------
(* Properties of the thumbnails directory *)

\* C12 as claimed: after any sequence of requests, each run to completion,
\* every file in the thumbnails directory has an image of the same name in
\* the gallery directory.
C12_NoOrphanThumbnails == DOMAIN thumbs \subseteq DOMAIN gallery

\* a successful save has left a readable file in the thumbnails directory
\* that has no image in the gallery
C12_Witness ==
    /\ req.op = "save"
    /\ resp.status = 200
    /\ \E n \in DOMAIN thumbs : n \notin DOMAIN gallery /\ Decodable(thumbs[n])

====
